---- MODULE Spec2Model ----
(***************************************************************************)
(* Model of paulsplacemd.py: the shelter ranking pipeline run by main().   *)
(*                                                                         *)
(* main() is a linear batch: fetch the API rows, load the CSV rows,        *)
(* convert the API coordinates, merge, resolve the category of each name,  *)
(* compute and format the distances, sort, filter by radius, filter by     *)
(* the categories picked in the multiselect, show the table and the map.   *)
(* Each step is one action; pc is the position of the run in main().       *)
(*                                                                         *)
(* Positions.  The world of the model is the meridian through Paul's       *)
(* Place: a position is one integer, the offset north of Paul's Place in   *)
(* thousandths of a mile (negative: south), so pauls_place_lat is 0 and    *)
(* the geodesic distance of a position p is |p - pauls_place_lat|, in      *)
(* thousandths of a mile.  A float distance x is the integer 1000*x.       *)
(*                                                                         *)
(* Cells.  A coordinate cell of a data frame is a record [kind, val]:      *)
(* kind "num" for a number, "str" for a cell that holds no number (text,   *)
(* an empty cell), "none" for the None that convert_coordinates returns.   *)
(*                                                                         *)
(* Rows carry one field the code does not have, src ("api" or "csv"): the  *)
(* source a row was read from.  No action reads it; the properties do.     *)
(*                                                                         *)
(* Line 93 of the file is indented by 10 columns inside a block of 8, so   *)
(* Python rejects the file as it stands (IndentationError).  The model is  *)
(* of the program with that line at the indentation of its block.          *)
(***************************************************************************)
EXTENDS Integers, Sequences, FiniteSets, TLC

\* ---------------------------------------------------------------- bounds
\* The most rows the API response and the CSV file hold.
MaxApiRows == 1
MaxCsvRows == 2

\* ------------------------------------------------------------- constants
\* Line 21: the latitude of Paul's Place, the origin of the model's meridian.
pauls_place_lat == 0
\* Line 191: the radius of the filter, in miles.
distance_threshold == 10
\* Line 27: EPSG:2248 is a projected system with its own origin; in the model
\* the projected y of Paul's Place (projected unit = thousandth of a mile).
ProjectedOrigin == 5000

PaulsPlaceName == "Paul's Place"
NotAvailable == "Not Available"
Unknown == "Unknown"

\* The texts of st.error / st.warning.
FetchError == "Error fetching shelter data"
CsvError == "Error loading CSV file"
ConvertWarning == "Error converting coordinates"
ProcessError == "Shelter data could not be processed."

\* ----------------------------------------------------------------- cells
Num(v) == [kind |-> "num", val |-> v]
NonNumeric == [kind |-> "str", val |-> 0]
None == [kind |-> "none", val |-> 0]
IsNum(c) == c.kind = "num"

\* ---------------------------------------------------------------- inputs
\* The rows the API can answer with: name, projected y_coord, address.
ApiNames == {"Our Daily Bread", PaulsPlaceName}
ApiYCoords == {Num(ProjectedOrigin), Num(ProjectedOrigin + 10000), NonNumeric}
ApiRows == [name : ApiNames, y_coord : ApiYCoords, address : {"725 Fallsway"}]

\* The rows the CSV file can hold: Location, Latitude.
CsvLocations == {PaulsPlaceName, "Our Daily Bread"}
CsvLatitudes == {Num(0), Num(-471), Num(474), Num(10004), Num(10010), NonNumeric}
CsvRows == [Location : CsvLocations, Latitude : CsvLatitudes]

SeqsUpTo(S, n) == UNION {[1..k -> S] : k \in 0..n}

\* What requests.get / raise_for_status / response.json() give fetch_shelter_data:
\* a ConnectionError or an HTTPError (both RequestException), a JSON body without
\* 'features', a feature without 'attributes', or the rows.
ApiResponses ==
    {[kind |-> k, rows |-> <<>>] :
        k \in {"ConnectionError", "HTTPError", "no_features", "no_attributes"}}
    \cup {[kind |-> "ok", rows |-> r] : r \in SeqsUpTo(ApiRows, MaxApiRows)}

\* What pd.read_csv gives load_csv_data: an exception (no file, no parse) or rows.
CsvFiles ==
    {[kind |-> "error", rows |-> <<>>]}
    \cup {[kind |-> "ok", rows |-> r] : r \in SeqsUpTo(CsvRows, MaxCsvRows)}

\* ------------------------------------------------------- pure operations
Range(s) == {s[i] : i \in 1..Len(s)}
Abs(x) == IF x < 0 THEN -x ELSE x

\* Lines 93-164.  The four keys spelled with a typographic apostrophe
\* (U+2019) cannot be written in a TLA+ string and are left out; no name of
\* the model's inputs is one of them.
function_mapping ==
       ("VOA Pratt House" :> "Emergency Shelters")
    @@ ("University of Maryland Medical Center" :> "Medical Services")
    @@ ("The Baltimore Station" :> "Emergency Shelters")
    @@ ("Christ Lutheran Place" :> "Emergency Shelters")
    @@ ("Grace Medical Center" :> "Medical Services")
    @@ ("American Rescue Workers" :> "Emergency Shelters")
    @@ ("Seton Station" :> "Emergency Shelters")
    @@ ("Our Daily Bread" :> "Food & Meals")
    @@ ("Mercy Medical Center" :> "Medical Services")
    @@ ("Patrick Allison House" :> "Emergency Shelters")
    @@ ("Maryland Legal Aid" :> "Legal Services")
    @@ ("Interfaith ES" :> "Emergency Shelters")
    @@ ("Health Care for the Homeless" :> "Medical Services")
    @@ ("Weinberg Housing and Resource Center" :> "Emergency Shelters")
    @@ ("Maryland Center for Veterans Education and Training" :> "Veteran Services")
    @@ ("YWCA - Druid House" :> "Emergency Shelters")
    @@ ("ACC Christopher Place" :> "Emergency Shelters")
    @@ ("Chase Brexton Health Services" :> "Medical Services")
    @@ ("Code Blue J, H & R" :> "Emergency Shelters")
    @@ ("Helping Up Mission" :> "Emergency Shelters")
    @@ ("Salvation Army" :> "Emergency Shelters")
    @@ ("Karis House" :> "Emergency Shelters")
    @@ ("Baltimore Rescue Mission" :> "Emergency Shelters")
    @@ ("Aunt CC's Harbor House" :> "Emergency Shelters")
    @@ ("Umar Boxing" :> "Community Services")
    @@ ("Pennsylvania Avenue Library" :> "Community Services")
    @@ ("Orleans Street Library" :> "Community Services")
    @@ ("SVdP Ozanam House" :> "Emergency Shelters")
    @@ ("Project PLASE" :> "Emergency Shelters")
    @@ ("East Baltimore Medical Center" :> "Medical Services")
    @@ ("Cherry Hill Library" :> "Community Services")
    @@ ("MedStar Harbor Hospital" :> "Medical Services")
    @@ ("Baltimore Safe Haven" :> "Emergency Shelters")
    @@ ("Johns Hopkins Hospital" :> "Medical Services")
    @@ ("Franciscan Center" :> "Food & Meals")
    @@ ("Kennedy Krieger Institute" :> "Medical Services")
    @@ ("Youth Empowered Society (YES)" :> "Youth Services")
    @@ ("ACC Project FRESH Start" :> "Emergency Shelters")
    @@ ("St. Vincent de Paul of Baltimore" :> "Emergency Shelters")
    @@ ("Northwest One-Stop Career Center" :> "Employment Services")
    @@ ("Church of the Guardian Angel" :> "Community Services")
    @@ ("Manna House" :> "Emergency Shelters")
    @@ ("Supportive Housing Group/Lanvale Institute" :> "Housing Services")
    @@ ("Collington Square" :> "Community Services")
    @@ ("Dayspring Village" :> "Housing Services")
    @@ ("J, H & R - VA" :> "Veteran Services")
    @@ ("J, H & R - Carrington House" :> "Veteran Services")
    @@ ("Sacred House" :> "Community Services")
    @@ ("Eastside One-Stop Career Center" :> "Employment Services")
    @@ ("Brooklyn Library" :> "Community Services")
    @@ ("Marian House" :> "Housing Services")
    @@ ("MedStar Union Memorial Hospital" :> "Medical Services")
    @@ ("SVdP Cottage Avenue" :> "Emergency Shelters")
    @@ ("Southeast Anchor Library" :> "Community Services")
    @@ ("Grace Baptist Church" :> "Community Services")
    @@ ("BMHS Ethel Elan Safe Haven II" :> "Emergency Shelters")
    @@ ("BMHS Safe Haven I" :> "Emergency Shelters")
    @@ ("Johns Hopkins Bayview Medical Center" :> "Medical Services")
    @@ ("Maryland Food Bank" :> "Food & Meals")
    @@ ("Park West Health System | Belvedere Ave." :> "Medical Services")
    @@ ("Sinai Hospital" :> "Medical Services")
    @@ ("Levindale Hebrew Geriatric Center and Hospital" :> "Medical Services")
    @@ ("Mt. Washington Pediatric Hospital" :> "Medical Services")
    @@ ("MedStar Good Samaritan Hospital" :> "Medical Services")
    @@ ("Harbel Community Organization" :> "Community Services")

\* Line 167: combined_df['name'].map(function_mapping).fillna("Unknown").
MapFunction(name) ==
    IF name \in DOMAIN function_mapping THEN function_mapping[name] ELSE Unknown

\* Line 59: transformer.transform, projected y to latitude.
TransformerTransform(y) == y - ProjectedOrigin

\* Lines 57-63: the latitude cell convert_coordinates gives a row; a cell that
\* is no number makes transform raise, and the handler returns None.
convert_coordinates(row) ==
    IF IsNum(row.y_coord) THEN Num(TransformerTransform(row.y_coord.val)) ELSE None

\* Lines 76-77: apply convert_coordinates to every row, then dropna.
ConvertedRow(row) ==
    [name |-> row.name, latitude |-> convert_coordinates(row),
     address |-> row.address, function |-> "NaN", src |-> "api"]
ConvertAndDrop(df) ==
    SelectSeq([i \in 1..Len(df) |-> ConvertedRow(df[i])], LAMBDA r : r.latitude # None)

\* Line 35 with every row kept: a load that forgets the self-exclusion.
KeepAllLocations(rows) == rows
\* Line 35: csv_df[csv_df["Location"] != "Paul's Place"].
ExcludePaulsPlace(rows) == SelectSeq(rows, LAMBDA r : r.Location # PaulsPlaceName)

\* Lines 31-39: load_csv_data; any exception gives the empty frame.
load_csv_data(file) == IF file.kind = "ok" THEN ExcludePaulsPlace(file.rows) ELSE <<>>

\* Line 73 left out: the frames are processed whatever they hold.
AlwaysProcess(s, c) == TRUE
\* Line 73 with "and" for "or".
BothNotEmpty(s, c) == s # <<>> /\ c # <<>>
\* Line 73: not shelters_df.empty or not csv_df.empty.
AnyNotEmpty(s, c) == s # <<>> \/ c # <<>>

\* Lines 82-85: rename the CSV columns, add address and function.
RenamedRow(r) ==
    [name |-> r.Location, latitude |-> r.Latitude,
     address |-> NotAvailable, function |-> Unknown, src |-> "csv"]
RenameCsv(df) == [i \in 1..Len(df) |-> RenamedRow(df[i])]

\* A merge that keeps the first row of each name only.
RECURSIVE DropDuplicateNames(_, _)
DropDuplicateNames(df, seen) ==
    IF df = <<>> THEN <<>>
    ELSE IF Head(df).name \in seen THEN DropDuplicateNames(Tail(df), seen)
    ELSE <<Head(df)>> \o DropDuplicateNames(Tail(df), seen \cup {Head(df).name})
ConcatDistinctNames(a, b) == DropDuplicateNames(a \o b, {})
\* Line 88: pd.concat([shelters_df, csv_df], ignore_index=True).
Concat(a, b) == a \o b

\* Lines 80-90: the merged frame.
Merged(s, c) == IF c # <<>> THEN Concat(s, RenameCsv(c)) ELSE s

\* Lines 174-175: geodesic(...).miles of a position, in thousandths of a mile.
calculate_distance(lat) == Abs(lat - pauls_place_lat)

\* Line 181: f"{x:.2f}" rounds to the nearest hundredth (an exact tie to even);
\* the result in hundredths of a mile.
Round2(d) ==
    LET q == d \div 10
        r == d % 10
    IN  IF r < 5 THEN q
        ELSE IF r > 5 THEN q + 1
        ELSE IF q % 2 = 0 THEN q ELSE q + 1

\* Line 181: the string "<x.xx> miles", as the pair of its number (in
\* hundredths) and its suffix.
FormatMiles(d) == <<Round2(d), " miles">>
\* Lines 184, 192: .str.replace(' miles', '').astype(float), in hundredths.
ParseMiles(s) == s[1]

\* Lines 178-181: the row with its formatted distance.
WithDistance(r) ==
    [name |-> r.name, latitude |-> r.latitude, address |-> r.address,
     function |-> r.function, src |-> r.src,
     distance_to_pauls_place |-> FormatMiles(calculate_distance(r.latitude.val))]

\* Line 184: sort_values(by=..., key=...) orders the rows by the parsed number
\* of the formatted string; its default kind ('quicksort') is not stable, so
\* rows with equal keys come out in any order.
SortKey(r) == ParseMiles(r.distance_to_pauls_place)
SortOutcomes(df) ==
    {[i \in 1..Len(df) |-> df[p[i]]] : p \in
        {q \in Permutations(1..Len(df)) :
            \A i, j \in 1..Len(df) : i < j => SortKey(df[q[i]]) <= SortKey(df[q[j]])}}

\* Line 192: the rows whose parsed number is <= distance_threshold.
WithinThreshold(df) ==
    SelectSeq(df, LAMBDA r : ParseMiles(r.distance_to_pauls_place) <= distance_threshold * 100)

\* Line 195: shelters_gdf_filtered['function'].unique().
UniqueFunctions(df) == {r.function : r \in Range(df)}

\* Line 199 with the selection ignored.
KeepAllFunctions(df, selected) == df
\* Line 199: shelters_gdf_filtered['function'].isin(selected_functions).
FilterByFunction(df, selected) == SelectSeq(df, LAMBDA r : r.function \in selected)

\* Lines 216-221: one green marker per row of the filtered frame.
Marker(r) == [latitude |-> r.latitude.val, popup |-> <<r.name, r.function>>, src |-> r.src]
Markers(df) == [i \in 1..Len(df) |-> Marker(df[i])]

\* ----------------------------------------------------------------- state
VARIABLES
    pc,                    \* where the run is in main()
    response,              \* what the API answers (input)
    csvFile,               \* what the CSV file holds (input)
    fetched,               \* the frame fetch_shelter_data returned
    shelters_df,           \* lines 68, 76-77
    csv_df,                \* line 71
    combined_df,           \* lines 88-90, 167, 178-181
    shelters_gdf_sorted,   \* line 184
    within_radius,         \* line 192: shelters_gdf_filtered before line 199
    function_options,      \* line 195
    selected_functions,    \* line 196
    shelters_gdf_filtered, \* line 199
    table,                 \* line 203: the rows st.dataframe shows
    markers,               \* lines 216-221: the green markers of the map
    mapShown,              \* line 234
    messages,              \* the st.error / st.warning texts shown
    exception              \* the exception that ended the run, "none" if none

vars == <<pc, response, csvFile, fetched, shelters_df, csv_df, combined_df,
          shelters_gdf_sorted, within_radius, function_options,
          selected_functions, shelters_gdf_filtered, table, markers, mapShown,
          messages, exception>>

inputs == <<response, csvFile>>
frames == <<combined_df, shelters_gdf_sorted, within_radius, function_options,
            selected_functions, shelters_gdf_filtered>>
display == <<table, markers, mapShown>>

Init ==
    /\ pc = "fetch"
    /\ response \in ApiResponses
    /\ csvFile \in CsvFiles
    /\ fetched = <<>>
    /\ shelters_df = <<>>
    /\ csv_df = <<>>
    /\ combined_df = <<>>
    /\ shelters_gdf_sorted = <<>>
    /\ within_radius = <<>>
    /\ function_options = {}
    /\ selected_functions = {}
    /\ shelters_gdf_filtered = <<>>
    /\ table = <<>>
    /\ markers = <<>>
    /\ mapShown = FALSE
    /\ messages = {}
    /\ exception = "none"

\* --------------------------------------------------------------- actions
\* Lines 44-51, 68: the request succeeds and the body has the rows.
FetchRows ==
    /\ pc = "fetch"
    /\ response.kind = "ok"
    /\ fetched' = response.rows
    /\ shelters_df' = response.rows
    /\ pc' = "load"
    /\ UNCHANGED <<inputs, csv_df, frames, display, messages, exception>>

\* Lines 45-46, 52-54: requests raises a RequestException; st.error, empty frame.
FetchRequestException ==
    /\ pc = "fetch"
    /\ response.kind \in {"ConnectionError", "HTTPError"}
    /\ fetched' = <<>>
    /\ shelters_df' = <<>>
    /\ messages' = messages \cup {FetchError}
    /\ pc' = "load"
    /\ UNCHANGED <<inputs, csv_df, frames, display, exception>>

\* Lines 48-49: data['features'] or feature['attributes'] raises KeyError, which
\* is no RequestException: it leaves fetch_shelter_data and main().
FetchKeyError ==
    /\ pc = "fetch"
    /\ response.kind \in {"no_features", "no_attributes"}
    /\ exception' = "KeyError"
    /\ pc' = "crashed"
    /\ UNCHANGED <<inputs, fetched, shelters_df, csv_df, frames, display, messages>>

\* Lines 31-39, 71.
LoadCsv ==
    /\ pc = "load"
    /\ csv_df' = load_csv_data(csvFile)
    /\ messages' = IF csvFile.kind = "ok" THEN messages ELSE messages \cup {CsvError}
    /\ pc' = "branch"
    /\ UNCHANGED <<inputs, fetched, shelters_df, frames, display, exception>>

\* Line 73, taken.
BranchProcess ==
    /\ pc = "branch"
    /\ AnyNotEmpty(shelters_df, csv_df)
    /\ pc' = "convert"
    /\ UNCHANGED <<inputs, fetched, shelters_df, csv_df, frames, display, messages, exception>>

\* Lines 235-236: both frames are empty.
BranchEmpty ==
    /\ pc = "branch"
    /\ ~AnyNotEmpty(shelters_df, csv_df)
    /\ messages' = messages \cup {ProcessError}
    /\ pc' = "done"
    /\ UNCHANGED <<inputs, fetched, shelters_df, csv_df, frames, display, exception>>

\* Lines 75-77 (and the st.warning of line 62 for each row that failed).
ConvertCoordinates ==
    /\ pc = "convert"
    /\ shelters_df' = ConvertAndDrop(shelters_df)
    /\ messages' = IF \E r \in Range(shelters_df) : convert_coordinates(r) = None
                   THEN messages \cup {ConvertWarning} ELSE messages
    /\ pc' = "merge"
    /\ UNCHANGED <<inputs, fetched, csv_df, frames, display, exception>>

\* Lines 80-90.
Merge ==
    /\ pc = "merge"
    /\ combined_df' = Merged(shelters_df, csv_df)
    /\ pc' = "enrich"
    /\ UNCHANGED <<inputs, fetched, shelters_df, csv_df, shelters_gdf_sorted,
                   within_radius, function_options, selected_functions,
                   shelters_gdf_filtered, display, messages, exception>>

\* Line 167.
EnrichFunction ==
    /\ pc = "enrich"
    /\ combined_df' = [i \in 1..Len(combined_df) |->
                         [combined_df[i] EXCEPT !.function = MapFunction(combined_df[i].name)]]
    /\ pc' = "distance"
    /\ UNCHANGED <<inputs, fetched, shelters_df, csv_df, shelters_gdf_sorted,
                   within_radius, function_options, selected_functions,
                   shelters_gdf_filtered, display, messages, exception>>

\* Lines 170-181: every latitude is a number.
CalculateDistances ==
    /\ pc = "distance"
    /\ \A r \in Range(combined_df) : IsNum(r.latitude)
    /\ combined_df' = [i \in 1..Len(combined_df) |-> WithDistance(combined_df[i])]
    /\ pc' = "sort"
    /\ UNCHANGED <<inputs, fetched, shelters_df, csv_df, shelters_gdf_sorted,
                   within_radius, function_options, selected_functions,
                   shelters_gdf_filtered, display, messages, exception>>

\* Lines 170-178: a latitude that is no number makes Point() or geodesic() raise;
\* nothing in main() catches it.
CalculateDistancesRaises ==
    /\ pc = "distance"
    /\ \E r \in Range(combined_df) : ~IsNum(r.latitude)
    /\ exception' = "ValueError"
    /\ pc' = "crashed"
    /\ UNCHANGED <<inputs, fetched, shelters_df, csv_df, frames, display, messages>>

\* Lines 184-188.
SortByDistance ==
    /\ pc = "sort"
    /\ shelters_gdf_sorted' \in SortOutcomes(combined_df)
    /\ pc' = "radius"
    /\ UNCHANGED <<inputs, fetched, shelters_df, csv_df, combined_df, within_radius,
                   function_options, selected_functions, shelters_gdf_filtered,
                   display, messages, exception>>

\* Lines 191-195.
FilterRadius ==
    /\ pc = "radius"
    /\ within_radius' = WithinThreshold(shelters_gdf_sorted)
    /\ function_options' = UniqueFunctions(WithinThreshold(shelters_gdf_sorted))
    /\ pc' = "select"
    /\ UNCHANGED <<inputs, fetched, shelters_df, csv_df, combined_df, shelters_gdf_sorted,
                   selected_functions, shelters_gdf_filtered, display, messages, exception>>

\* Line 196: the user's selection, any subset of the options (default: all).
Multiselect ==
    /\ pc = "select"
    /\ selected_functions' \in SUBSET function_options
    /\ pc' = "category"
    /\ UNCHANGED <<inputs, fetched, shelters_df, csv_df, combined_df, shelters_gdf_sorted,
                   within_radius, function_options, shelters_gdf_filtered, display,
                   messages, exception>>

\* Lines 199-203.
FilterCategory ==
    /\ pc = "category"
    /\ shelters_gdf_filtered' = FilterByFunction(within_radius, selected_functions)
    /\ table' = FilterByFunction(within_radius, selected_functions)
    /\ pc' = "map"
    /\ UNCHANGED <<inputs, fetched, shelters_df, csv_df, combined_df, shelters_gdf_sorted,
                   within_radius, function_options, selected_functions, markers,
                   mapShown, messages, exception>>

\* Lines 206-234.
RenderMap ==
    /\ pc = "map"
    /\ markers' = Markers(shelters_gdf_filtered)
    /\ mapShown' = TRUE
    /\ pc' = "done"
    /\ UNCHANGED <<inputs, fetched, shelters_df, csv_df, frames, table, messages, exception>>

Next ==
    \/ FetchRows
    \/ FetchRequestException
    \/ FetchKeyError
    \/ LoadCsv
    \/ BranchProcess
    \/ BranchEmpty
    \/ ConvertCoordinates
    \/ Merge
    \/ EnrichFunction
    \/ CalculateDistances
    \/ CalculateDistancesRaises
    \/ SortByDistance
    \/ FilterRadius
    \/ Multiselect
    \/ FilterCategory
    \/ RenderMap

Spec == Init /\ [][Next]_vars

\* ------------------------------------------------------------ properties
AfterSort == {"radius", "select", "category", "map", "done"}
AfterRadius == {"select", "category", "map", "done"}
AfterCategory == {"map", "done"}

\* main() has built combined_df (lines 88-90).
MergedBuilt ==
    \/ pc \in {"enrich", "distance", "sort", "radius", "select", "category", "map"}
    \/ pc = "done" /\ mapShown
    \/ pc = "crashed" /\ exception = "ValueError"

\* Both fetch_shelter_data and load_csv_data have returned, each an empty frame.
BothSourcesEmpty ==
    /\ pc \notin {"fetch", "load"}
    /\ exception # "KeyError"
    /\ fetched = <<>>
    /\ csv_df = <<>>

TrueDistance(r) == calculate_distance(r.latitude.val)

\* C1: in the sorted list, a record that precedes another has a true
\* (unrounded) distance to Paul's Place that is <= the other's.
C1_SortedByTrueDistance ==
    pc \in AfterSort =>
        \A i, j \in 1..Len(shelters_gdf_sorted) :
            i < j => TrueDistance(shelters_gdf_sorted[i]) <= TrueDistance(shelters_gdf_sorted[j])

\* C2: every record left by the radius filter has a true distance <= the
\* threshold of 10 miles; a record at exactly 10 miles is kept and a record
\* at 10.01 miles is dropped.
C2_FilteredWithinThreshold ==
    /\ \A r \in Range(within_radius) \cup Range(shelters_gdf_filtered) :
          TrueDistance(r) <= distance_threshold * 1000
    /\ pc \in AfterRadius =>
          \A r \in Range(shelters_gdf_sorted) :
              /\ TrueDistance(r) = distance_threshold * 1000 => r \in Range(within_radius)
              /\ TrueDistance(r) = distance_threshold * 1000 + 10 => r \notin Range(within_radius)

\* C3: a record with invalid raw coordinates, from the API or from the CSV
\* file, never reaches the distance computation, and the run does not end in
\* an unhandled error.
C3_InvalidCoordinatesExcluded ==
    /\ exception # "ValueError"
    /\ pc \in {"distance", "sort"} \cup AfterSort =>
          \A r \in Range(combined_df) : IsNum(r.latitude)

\* C4: every failure of the remote source, a network/HTTP error or a
\* malformed response, makes fetch_shelter_data return an empty frame and
\* raises nothing out of it.
C4_FetchFailureGivesEmptyFrame ==
    (response.kind # "ok" /\ pc # "fetch") => (exception # "KeyError" /\ fetched = <<>>)

\* C5 as stated: whenever the run ends with no record left by the filters,
\* it has signalled "Shelter data could not be processed.".
C5_EmptyOutputSignalsError ==
    (pc = "done" /\ shelters_gdf_filtered = <<>>) => ProcessError \in messages

\* C5 as amended: "Shelter data could not be processed." is signalled exactly
\* when both sources returned an empty frame; a run that ends with a source
\* that was not empty has shown the table and the map of the filtered rows,
\* empty or not.
C5_ErrorExactlyWhenBothSourcesEmpty ==
    /\ ProcessError \in messages <=> (pc = "done" /\ fetched = <<>> /\ csv_df = <<>>)
    /\ (pc = "done" /\ ~(fetched = <<>> /\ csv_df = <<>>)) =>
          (mapShown /\ table = shelters_gdf_filtered /\ markers = Markers(shelters_gdf_filtered))

\* A run with data that ends with nothing left by the filters: the empty
\* table and the map are shown, without the error.
C5_Witness ==
    /\ pc = "done"
    /\ fetched # <<>>
    /\ csv_df # <<>>
    /\ shelters_gdf_filtered = <<>>
    /\ mapShown
    /\ ProcessError \notin messages

\* C6 as stated: no record of the filtered output and no shelter marker has
\* the position of Paul's Place.
C6_NoRecordAtReferencePoint ==
    /\ \A r \in Range(shelters_gdf_filtered) : r.latitude.val # pauls_place_lat
    /\ \A m \in Range(markers) : m.latitude # pauls_place_lat

\* C6 as amended: the only de-duplication is by name, in the CSV source: no
\* CSV row named "Paul's Place" is in the filtered output or on the map; a
\* record at the position of Paul's Place under another name, or from the
\* API, is kept, and is plotted when its category is selected.
C6_OnlyCsvRowNamedPaulsPlaceExcluded ==
    /\ \A r \in Range(shelters_gdf_filtered) \cup Range(table) :
          ~(r.src = "csv" /\ r.name = PaulsPlaceName)
    /\ \A m \in Range(markers) : ~(m.src = "csv" /\ m.popup[1] = PaulsPlaceName)
    /\ (pc = "done" /\ mapShown) =>
          \A r \in Range(combined_df) :
              (/\ IsNum(r.latitude)
               /\ r.latitude.val = pauls_place_lat
               /\ r.function \in selected_functions)
                  => Marker(r) \in Range(markers)

\* The CSV file holds a row named "Paul's Place", which is not plotted, and a
\* marker lies on the position of Paul's Place.
C6_Witness ==
    /\ pc = "done"
    /\ \E r \in Range(csvFile.rows) : r.Location = PaulsPlaceName
    /\ \E m \in Range(markers) : m.latitude = pauls_place_lat /\ m.src = "csv"
    /\ \E m \in Range(markers) : m.latitude = pauls_place_lat /\ m.src = "api"

\* C7: when the fetch and the CSV load both return an empty frame, main()
\* ends at once (line 236), with no exception, and nothing is ranked, listed
\* or plotted.
C7_EmptySourcesEndEmpty ==
    BothSourcesEmpty =>
        /\ pc \in {"branch", "done"}
        /\ pc = "branch" => ENABLED BranchEmpty
        /\ exception = "none"
        /\ shelters_gdf_sorted = <<>>
        /\ table = <<>>
        /\ markers = <<>>
        /\ ~mapShown

\* The run has ended with both sources empty, one of them by a failure.
C7_Witness ==
    /\ BothSourcesEmpty
    /\ pc = "done"
    /\ response.kind = "HTTPError"
    /\ csvFile.kind = "ok"

\* C8: in the merged set, no row of the CSV source is named "Paul's Place",
\* and the rows of the CSV source are the rows load_csv_data returned, each
\* once and in their order.
C8_CsvPaulsPlaceNotMerged ==
    MergedBuilt =>
        /\ \A r \in Range(combined_df) : ~(r.src = "csv" /\ r.name = PaulsPlaceName)
        /\ LET fromCsv == SelectSeq(combined_df, LAMBDA r : r.src = "csv")
           IN  /\ Len(fromCsv) = Len(csv_df)
               /\ \A i \in 1..Len(csv_df) :
                     /\ fromCsv[i].name = csv_df[i].Location
                     /\ fromCsv[i].latitude = csv_df[i].Latitude
        /\ \A i \in 1..Len(csvFile.rows) :
              csvFile.rows[i].Location # PaulsPlaceName =>
                  \E r \in Range(combined_df) :
                      /\ r.src = "csv"
                      /\ r.name = csvFile.rows[i].Location
                      /\ r.latitude = csvFile.rows[i].Latitude

\* The file holds a row named "Paul's Place" and another row; the merged set
\* is built and holds a CSV row.
C8_Witness ==
    /\ MergedBuilt
    /\ \E r \in Range(csvFile.rows) : r.Location = PaulsPlaceName
    /\ \E r \in Range(csvFile.rows) : r.Location # PaulsPlaceName
    /\ \E r \in Range(combined_df) : r.src = "csv"

\* C9: the merged set holds one record per surviving input row: its size is
\* the number of API rows with converted coordinates plus the number of rows
\* load_csv_data returned, whatever names the rows share.
C9_MergeKeepsEveryRow ==
    MergedBuilt => Len(combined_df) = Len(shelters_df) + Len(csv_df)

\* The merged set holds an API row and a CSV row of the same name, and two
\* CSV rows of the same name.
C9_Witness ==
    /\ MergedBuilt
    /\ \E i, j \in 1..Len(combined_df) :
          /\ combined_df[i].src = "api"
          /\ combined_df[j].src = "csv"
          /\ combined_df[i].name = combined_df[j].name
    /\ \E i, j \in 1..Len(combined_df) :
          /\ i # j
          /\ combined_df[i].src = "csv"
          /\ combined_df[j].src = "csv"
          /\ combined_df[i].name = combined_df[j].name

\* C10: after the category filter, every record of the output has the
\* category its name resolves to ("Unknown" on a miss), and that category is
\* one of the selected ones; with everything selected (the default) the
\* filter removes nothing.
C10_OutputCategoriesSelected ==
    pc \in AfterCategory =>
        /\ \A r \in Range(shelters_gdf_filtered) :
              /\ r.function \in selected_functions
              /\ r.function = MapFunction(r.name)
        /\ selected_functions = function_options => shelters_gdf_filtered = within_radius

\* The user has deselected a category: a record is removed, another (of an
\* unmapped name, "Unknown") stays.
C10_Witness ==
    /\ pc = "done"
    /\ selected_functions # function_options
    /\ Len(shelters_gdf_filtered) < Len(within_radius)
    /\ \E r \in Range(shelters_gdf_filtered) : r.function = Unknown
====
